---- MODULE Spec2Model ----
(***************************************************************************)
(* Model of EthMonitor (src/monitor.js): the alert gate (lastAlerts and    *)
(* shouldSendAlert), the polling monitor's probes and runChecks, the       *)
(* one-shot checker's probes, the reference resolver getCanonicalBlock,    *)
(* the version comparison, and the WebSocket monitor's connection          *)
(* handling and timers.                                                    *)
(*                                                                         *)
(* Time is Date.now() in milliseconds.  The clock only moves forward.      *)
(* shouldSendAlert computes (Date.now() - lastSent) / 1000 / 60 >=         *)
(* cooldownMinutes in floating point; for the integer millisecond values   *)
(* of the model this is the integer comparison                             *)
(* Date.now() - lastSent >= cooldownMinutes * 60 * 1000 (both divisions    *)
(* are exact at the boundary and the quotient is monotonic).               *)
(***************************************************************************)
EXTENDS Integers, Sequences, FiniteSets, TLC

VARIABLES
    now,            \* Date.now(), ms
    lastAlerts,     \* this.lastAlerts: Map alertKey -> ms stamp (partial function)
    telegramEnabled, \* this.telegramEnabled, set by the constructor
    \* ---- polling monitor (lines 530-873)
    mode,           \* CLI: "oneshot" (runChecks, then process.exit) or "continuous"
    pc,             \* position of runChecks
    hasErrors,      \* runChecks local
    hasWarnings,    \* runChecks local
    exitCode,       \* value returned by runChecks (NoCode until it returns)
    sawError,       \* history: a probe of the current cycle returned ERROR or threw
    sawWarning,     \* history: a probe of the current cycle returned WARNING
    ran,            \* history: the probes run so far in the current cycle, in order
    \* ---- history of the gate (observations, never read by the program)
    ev,             \* what the step just taken did to the gate (NoEvent: nothing)
    cleared,        \* keys whose last operation was a delete
    lastFire,       \* per key: time of the last true result since the last delete
    lastNotif,      \* per key: time of the last notification since the last healthy observation
    staleRun,       \* checkBlockTimestamp: the current run of consecutive bad observations
    \* ---- pure functions under test
    fnOp,           \* the function applied
    fnIn,           \* its arguments
    fnDone,         \* whether it has returned
    fnRet,          \* what it returned

    \* ---- WebSocket monitor (lines 1-528)
    ws              \* the monitor object and its connection, a record:
                    \*   phase: "init" before startMonitoring, "running", "exited"
                    \*   reconnectAttempts: this.reconnectAttempts
                    \*   wsProvider: this.wsProvider, "null" or its socket
                    \*       "connecting" / "open"
                    \*   awaitingBlockNumber: setupWebSocketConnection waits at line 408
                    \*   pendingRejects: getBlockNumber calls of dead providers
                    \*       that will reject
                    \*   orphans: destroyed or replaced providers whose socket has
                    \*       yet to close
                    \*   reconnectTimers: pending setTimeout callbacks of reconnect
                    \*   reconnectDelay: delay of the setTimeout scheduled last, ms
                    \*   failedInARow (history): connection attempts failed since a
                    \*       socket last opened
                    \*   fatalSent (history): 'Monitor Connection Failed' was sent

    ,
    push            \* the WebSocket monitor's handlers and timers, a record:
                    \*   started: startMonitoring has created its interval timers
                    \*   metricsUrl, consensusUrl: ETH_EXECUTION_METRICS and
                    \*       ETH_CONSENSUS_RPC are configured
                    \*   steady (environment): the node is in step with the
                    \*       references, has peers and memory enough and no
                    \*       release ahead of it; its requests can still fail
                    \*   lastBlockTime, lastBlockNumber, lastMetricsCheck,
                    \*       lastVersionCheck: the fields of the monitor
                    \*   handlers: the block handlers in flight, each with its
                    \*       blockNumber n, the Date.now() t0 handleNewBlock read,
                    \*       and the await it stands at (pc)
                    \*   delivered: block events delivered so far
                    \*   heartbeatDue, consensusDue: when the interval timers fire
                    \*       next
                    \*   ticks, jumps (bounds): how often the clock has advanced
                    \*   observedAt, prevObservedAt (history): when handleNewBlock
                    \*       was entered last, and the time before that
                    \*   handledAt (history): the latest t0 among the blocks
                    \*       handleNewBlock has recorded
                    \*   metricsChecks, versionChecks (history): whether a metrics
                    \*       fetch / a version check has been started
                    \*   metricsFetchAt, versionCheckAt (history): when the latest
                    \*       metrics fetch / version check was started

gateVars == <<ev, cleared, lastFire, lastNotif, staleRun>>
pollVars == <<mode, pc, hasErrors, hasWarnings, exitCode, sawError, sawWarning, ran>>
fnVars   == <<fnOp, fnIn, fnDone, fnRet>>
wsVars   == <<ws, push>>
vars     == <<now, lastAlerts, telegramEnabled, pollVars, gateVars, fnVars, wsVars>>

----------------------------------------------------------------------------
\* Program constants

EXPECTED_CHAIN_ID == 1
MAX_BLOCK_DELAY == 10
BLOCK_TIME_THRESHOLD_MS == 30000
AHEAD_LIMIT == 5
NumReferences == 3
MsPerMinute == 60000
maxReconnectAttempts == 10
BackoffBaseMs == 1000
BackoffCapMs == 60000
MAX_PEER_COUNT_LOW == 10
MAX_MEMORY_MB == 16000
METRICS_POLL_INTERVAL_MS == 30000
VERSION_CHECK_INTERVAL_MS == 21600000
HEARTBEAT_INTERVAL_MS == 30000
CONSENSUS_INTERVAL_MS == 60000
NO_BLOCKS_THRESHOLD_MS == 60000

\* Bounds of the model
StartTime == 1000
MaxElapsedMin == 60
TickMinutes == {60}

PollKeys == {"wrong_chain_id", "out_of_sync", "ahead_of_chain",
             "sync_check_failed", "block_hash_mismatch", "stale_block"}
WsKeys == {"block_stall", "out_of_sync", "reth_metrics_unavailable", "low_peers",
           "high_memory", "reth_outdated", "lighthouse_outdated", "ws_error",
           "consensus_not_synced", "consensus_down", "no_blocks"}
AlertKeys == PollKeys \cup WsKeys

NoTime == 0 - 1
NoKey == "-"
NoCode == 0 - 1
MaxRun == 3
MaxFailedInARow == 13
MaxPending == 2
PushStartTime == 21600000
MaxPushTicks == 3
MaxPushJumps == 1
MaxBlocks == 2
MaxHandlers == 2
MaxSlowHandlers == 1
BaseHeight == 100

----------------------------------------------------------------------------
\* The alert gate

\* Map.get: undefined (here NoTime) when the key has no entry
MapGet(map, key) == IF key \in DOMAIN map THEN map[key] ELSE NoTime

MapSet(map, key, value) ==
    [k \in DOMAIN map \cup {key} |-> IF k = key THEN value ELSE map[k]]

\* !lastSent: undefined and 0 are both falsy
Falsy(v) == v = NoTime \/ v = 0

shouldSendAlert_strict(alerts, alertKey, cooldownMinutes, t) ==
    LET lastSent == MapGet(alerts, alertKey) IN
    IF Falsy(lastSent)
    THEN [ret |-> TRUE, lastAlerts |-> MapSet(alerts, alertKey, t)]
    ELSE IF t - lastSent > cooldownMinutes * MsPerMinute
         THEN [ret |-> TRUE, lastAlerts |-> MapSet(alerts, alertKey, t)]
         ELSE [ret |-> FALSE, lastAlerts |-> alerts]

shouldSendAlert_nostamp(alerts, alertKey, cooldownMinutes, t) ==
    LET lastSent == MapGet(alerts, alertKey) IN
    IF Falsy(lastSent)
    THEN [ret |-> TRUE, lastAlerts |-> MapSet(alerts, alertKey, t)]
    ELSE IF t - lastSent >= cooldownMinutes * MsPerMinute
         THEN [ret |-> TRUE, lastAlerts |-> alerts]
         ELSE [ret |-> FALSE, lastAlerts |-> alerts]

shouldSendAlert_deferredStamp(alerts, alertKey, cooldownMinutes, t) ==
    LET lastSent == MapGet(alerts, alertKey) IN
    IF Falsy(lastSent)
    THEN [ret |-> TRUE, lastAlerts |-> alerts]
    ELSE IF t - lastSent >= cooldownMinutes * MsPerMinute
         THEN [ret |-> TRUE, lastAlerts |-> alerts]
         ELSE [ret |-> FALSE, lastAlerts |-> alerts]

\* shouldSendAlert(alertKey, cooldownMinutes) called at Date.now() = t:
\* the value returned and the map afterwards.  The body has no await between
\* the read of the entry and its write (lines 79-91): a call is one step.
shouldSendAlert(alerts, alertKey, cooldownMinutes, t) ==
    LET lastSent == MapGet(alerts, alertKey) IN
    IF Falsy(lastSent)
    THEN [ret |-> TRUE, lastAlerts |-> MapSet(alerts, alertKey, t)]
    ELSE IF t - lastSent >= cooldownMinutes * MsPerMinute
         THEN [ret |-> TRUE, lastAlerts |-> MapSet(alerts, alertKey, t)]
         ELSE [ret |-> FALSE, lastAlerts |-> alerts]

MapDeleteAll_kept(map, keys) == map

\* Map.delete for each key of `keys` (lines 637, 679-680, 743, 781)
MapDeleteAll(map, keys) == [k \in DOMAIN map \ keys |-> map[k]]

\* What a probe did: the status it returned ("THROWN": it threw; for the
\* handlers of the WebSocket monitor, which return nothing, how they ended), the
\* key it passed to shouldSendAlert with its cooldown (NoKey: none), the keys it
\* deleted, and the keys whose condition it saw healthy.
Probe(status, gated, cooldown, deleted, healthy) ==
    [status |-> status, gated |-> gated, cooldown |-> cooldown,
     deleted |-> deleted, healthy |-> healthy]

\* What telegram.sendMessage does: it resolves or it rejects
SendOutcomes == {"resolves", "rejects"}

NoSend == [calls |-> 0, threw |-> FALSE, delivered |-> FALSE]

sendTelegramAlert_rethrow(enabled, outcome) ==
    IF ~enabled THEN NoSend
    ELSE IF outcome = "resolves"
         THEN [calls |-> 1, threw |-> FALSE, delivered |-> TRUE]
         ELSE [calls |-> 1, threw |-> TRUE, delivered |-> FALSE]

\* sendTelegramAlert (lines 61-76, 570-585): the number of sendMessage calls,
\* whether it threw to its caller, and whether the message was delivered
sendTelegramAlert(enabled, outcome) ==
    IF ~enabled THEN NoSend
    ELSE IF outcome = "resolves"
         THEN [calls |-> 1, threw |-> FALSE, delivered |-> TRUE]
         ELSE [calls |-> 1, threw |-> FALSE, delivered |-> FALSE]

AlertsAfterSend_rollback(stamped, before, send) ==
    IF send.calls > 0 /\ ~send.delivered THEN before ELSE stamped

\* lastAlerts once sendTelegramAlert has returned, `stamped` being the map the
\* gate left and `before` the map before the gate: neither sendTelegramAlert
\* (lines 61-76, 570-585) nor the code after it in a probe writes the entry of
\* the key, whatever became of the delivery
AlertsAfterSend(stamped, before, send) == stamped

\* One step of a probe as far as the gate is concerned: it calls
\* shouldSendAlert(gated, cooldown) and, on true, sendTelegramAlert (gated = NoKey:
\* no call), and it deletes the keys of `deleted`.  `healthy` are the keys whose
\* condition the probe has just seen healthy (history only).  ev.observed is the
\* status the caller of the probe sees.
ProbeStep(probe) ==
    LET gated == probe.gated
        cooldown == probe.cooldown
        deleted == probe.deleted
        healthy == probe.healthy
        r == IF gated = NoKey
             THEN [ret |-> FALSE, lastAlerts |-> lastAlerts]
             ELSE shouldSendAlert(lastAlerts, gated, cooldown, now)
    IN  /\ \E outcome \in (IF r.ret /\ telegramEnabled THEN SendOutcomes ELSE {"none"}) :
             LET send == IF r.ret THEN sendTelegramAlert(telegramEnabled, outcome)
                         ELSE NoSend
             IN
             /\ lastAlerts' =
                    MapDeleteAll(AlertsAfterSend(r.lastAlerts, lastAlerts, send), deleted)
             /\ ev' = [gated |-> gated, cooldown |-> cooldown, ret |-> r.ret,
                        deleted |-> deleted, healthy |-> healthy,
                        prevFire |-> IF gated = NoKey THEN NoTime ELSE lastFire[gated],
                        prevNotif |-> IF gated = NoKey THEN NoTime ELSE lastNotif[gated],
                        afterClear |-> gated # NoKey /\ gated \in cleared,
                        notified |-> {k \in healthy : lastNotif[k] # NoTime},
                        status |-> probe.status,
                        observed |-> IF send.threw THEN "THROWN" ELSE probe.status,
                        outcome |-> outcome,
                        send |-> send,
                        dropped |-> deleted \cap DOMAIN lastAlerts]
        /\ cleared' = (cleared \ {gated}) \cup deleted
        /\ lastFire' = [k \in AlertKeys |->
                        IF k = gated /\ r.ret THEN now
                        ELSE IF k \in deleted THEN NoTime ELSE lastFire[k]]
        /\ lastNotif' = [k \in AlertKeys |->
                        IF k = gated /\ r.ret THEN now
                        ELSE IF k \in healthy THEN NoTime ELSE lastNotif[k]]
        /\ staleRun' =
             IF gated = "stale_block"
             THEN IF staleRun.len = 0
                  THEN [len |-> 1, first |-> now, last |-> now,
                        sent |-> IF r.ret THEN 1 ELSE 0]
                  ELSE IF staleRun.len < MaxRun
                       THEN [len |-> staleRun.len + 1, first |-> staleRun.first,
                             last |-> now,
                             sent |-> staleRun.sent + (IF r.ret THEN 1 ELSE 0)]
                       ELSE staleRun
             ELSE IF "stale_block" \in healthy
                  THEN [len |-> 0, first |-> NoTime, last |-> NoTime, sent |-> 0]
                  ELSE staleRun

\* the same for a handler step that returns nothing to a caller
GateStep(gated, cooldown, deleted, healthy) ==
    ProbeStep(Probe("-", gated, cooldown, deleted, healthy))

NoEvent == [gated |-> NoKey, cooldown |-> 0, ret |-> FALSE, deleted |-> {},
            healthy |-> {}, prevFire |-> NoTime, prevNotif |-> NoTime,
            afterClear |-> FALSE, notified |-> {}, status |-> "-",
            observed |-> "-", outcome |-> "none", send |-> NoSend, dropped |-> {}]

\* A step that does not touch the gate
NoGateStep ==
    /\ ev' = NoEvent
    /\ UNCHANGED <<lastAlerts, telegramEnabled, cleared, lastFire, lastNotif, staleRun>>

----------------------------------------------------------------------------
\* What the collaborators answer

Fulfilled(v) == [status |-> "fulfilled", value |-> v]
RejectedNum == [status |-> "rejected", value |-> 0]
RejectedStr == [status |-> "rejected", value |-> ""]
NullBlock == "null"

ChainIds == {1, 5}
MonitoredHeights == {100, 105, 106}
ReferenceHeights == {100, 110, 111}
Hashes == {"0xAAA", "0xBBB"}
BlockAgesMs == {0, 30000, 30001}

ChainIdAnswers == {Fulfilled(c) : c \in ChainIds} \cup {RejectedNum}
MonitoredAnswers == {Fulfilled(h) : h \in MonitoredHeights} \cup {RejectedNum}
ReferenceAnswers == {Fulfilled(h) : h \in ReferenceHeights} \cup {RejectedNum}
BlockAnswers == {Fulfilled(h) : h \in Hashes \cup {NullBlock}} \cup {RejectedStr}
LatestBlockAnswers == {Fulfilled(a) : a \in BlockAgesMs} \cup {RejectedNum}

----------------------------------------------------------------------------
\* Reference resolver

RECURSIVE MathMax(_)
MathMax(values) ==
    IF Len(values) = 1 THEN values[1]
    ELSE LET rest == MathMax(Tail(values)) IN
         IF values[1] > rest THEN values[1] ELSE rest

IsFulfilled(r) == r.status = "fulfilled"

ValuesOf(settled) ==
    LET ok == SelectSeq(settled, IsFulfilled) IN [i \in 1..Len(ok) |-> ok[i].value]

getCanonicalBlock_first(blockNumbers) ==
    LET validBlocks == ValuesOf(blockNumbers) IN
    IF Len(validBlocks) = 0
    THEN [threw |-> TRUE, value |-> 0]
    ELSE [threw |-> FALSE, value |-> validBlocks[1]]

\* getCanonicalBlock (lines 603-619; the same code at 185-199 and 898-914):
\* blockNumbers is what Promise.allSettled delivers, one entry per reference
getCanonicalBlock(blockNumbers) ==
    LET validBlocks == ValuesOf(blockNumbers) IN
    IF Len(validBlocks) = 0
    THEN [threw |-> TRUE, value |-> 0]
    ELSE [threw |-> FALSE, value |-> MathMax(validBlocks)]

----------------------------------------------------------------------------
\* Polling monitor: the probes

\* checkChainId (lines 621-640); getNetwork is not inside a try
Poll_checkChainId(network) ==
    IF network.status = "rejected"
    THEN Probe("THROWN", NoKey, 0, {}, {})
    ELSE IF network.value # EXPECTED_CHAIN_ID
         THEN Probe("ERROR", "wrong_chain_id", 60, {}, {})
         ELSE Probe("OK", NoKey, 0, {"wrong_chain_id"}, {"wrong_chain_id"})

\* checkSyncStatus (lines 642-697)
Poll_checkSyncStatus(monitored, references) ==
    LET canonical == getCanonicalBlock(references) IN
    IF monitored.status = "rejected" \/ canonical.threw
    THEN Probe("ERROR", "sync_check_failed", 60, {}, {})
    ELSE LET blockDelay == canonical.value - monitored.value IN
         IF blockDelay > MAX_BLOCK_DELAY
         THEN Probe("WARNING", "out_of_sync", 60, {},
                    {"sync_check_failed", "ahead_of_chain"})
         ELSE IF blockDelay < 0 - AHEAD_LIMIT
              THEN Probe("WARNING", "ahead_of_chain", 60, {},
                         {"sync_check_failed", "out_of_sync"})
              ELSE Probe("OK", NoKey, 0, {"out_of_sync", "ahead_of_chain"},
                         {"sync_check_failed", "out_of_sync", "ahead_of_chain"})

Poll_checkBlockConsistency_defaultCooldown(monitoredBlock, monitoredData, referenceBlocks) ==
    IF monitoredBlock.status = "rejected" \/ monitoredData.status = "rejected"
    THEN Probe("ERROR", NoKey, 0, {}, {})
    ELSE LET validReferenceBlocks == ValuesOf(referenceBlocks) IN
         IF Len(validReferenceBlocks) = 0
         THEN Probe("WARNING", NoKey, 0, {}, {})
         ELSE IF validReferenceBlocks[1] = NullBlock \/ monitoredData.value = NullBlock
              THEN Probe("ERROR", NoKey, 0, {}, {})
              ELSE IF monitoredData.value # validReferenceBlocks[1]
                   THEN Probe("ERROR", "block_hash_mismatch", 60, {}, {})
                   ELSE Probe("OK", NoKey, 0, {"block_hash_mismatch"},
                              {"block_hash_mismatch"})

\* checkBlockConsistency (lines 699-755).  monitoredData is the monitored node's
\* answer for block monitoredBlock - 5, referenceBlocks what Promise.allSettled
\* delivers for the same number.  getBlock answers null for a block the node does
\* not have; reading .hash of null throws and lands in the catch.
Poll_checkBlockConsistency(monitoredBlock, monitoredData, referenceBlocks) ==
    IF monitoredBlock.status = "rejected" \/ monitoredData.status = "rejected"
    THEN Probe("ERROR", NoKey, 0, {}, {})
    ELSE LET validReferenceBlocks == ValuesOf(referenceBlocks) IN
         IF Len(validReferenceBlocks) = 0
         THEN Probe("WARNING", NoKey, 0, {}, {})
         ELSE IF validReferenceBlocks[1] = NullBlock \/ monitoredData.value = NullBlock
              THEN Probe("ERROR", NoKey, 0, {}, {})
              ELSE IF monitoredData.value # validReferenceBlocks[1]
                   THEN Probe("ERROR", "block_hash_mismatch", 30, {}, {})
                   ELSE Probe("OK", NoKey, 0, {"block_hash_mismatch"},
                              {"block_hash_mismatch"})

\* checkBlockTimestamp (lines 757-793).  latestBlock carries
\* timeDiff = Date.now() - Number(latestBlock.timestamp) * 1000.
Poll_checkBlockTimestamp(latestBlock) ==
    IF latestBlock.status = "rejected"
    THEN Probe("ERROR", NoKey, 0, {}, {})
    ELSE IF latestBlock.value > BLOCK_TIME_THRESHOLD_MS
         THEN Probe("WARNING", "stale_block", 60, {}, {})
         ELSE Probe("OK", NoKey, 0, {"stale_block"}, {"stale_block"})

----------------------------------------------------------------------------
\* One-shot checker (lines 875-1084): the probes; it has no alert gate

\* checkSyncStatus (lines 930-958)
OneShot_checkSyncStatus(monitored, references) ==
    LET canonical == getCanonicalBlock(references) IN
    IF monitored.status = "rejected" \/ canonical.threw
    THEN Probe("ERROR", NoKey, 0, {}, {})
    ELSE LET blockDelay == canonical.value - monitored.value IN
         IF blockDelay > MAX_BLOCK_DELAY
         THEN Probe("WARNING", NoKey, 0, {}, {})
         ELSE IF blockDelay < 0
              THEN Probe("WARNING", NoKey, 0, {}, {})
              ELSE Probe("OK", NoKey, 0, {}, {})

\* checkBlockConsistency (lines 960-1004)
OneShot_checkBlockConsistency(monitoredBlock, monitoredData, referenceBlocks) ==
    IF monitoredBlock.status = "rejected" \/ monitoredData.status = "rejected"
    THEN Probe("ERROR", NoKey, 0, {}, {})
    ELSE LET validReferenceBlocks == ValuesOf(referenceBlocks) IN
         IF Len(validReferenceBlocks) = 0
         THEN Probe("WARNING", NoKey, 0, {}, {})
         ELSE IF validReferenceBlocks[1] = NullBlock \/ monitoredData.value = NullBlock
              THEN Probe("ERROR", NoKey, 0, {}, {})
              ELSE IF monitoredData.value # validReferenceBlocks[1]
                   THEN Probe("ERROR", NoKey, 0, {}, {})
                   ELSE Probe("OK", NoKey, 0, {}, {})

----------------------------------------------------------------------------
\* WebSocket monitor: the probes of handleNewBlock.  They return nothing; the
\* status says how the code left the probe: "DONE", or "CAUGHT" when the catch
\* of lines 237-239 ran.

\* the sync check of handleNewBlock (lines 220-239)
handleNewBlock_sync(blockNumber, references) ==
    LET canonical == getCanonicalBlock(references) IN
    IF canonical.threw
    THEN Probe("CAUGHT", NoKey, 0, {}, {})
    ELSE LET blockDelay == canonical.value - blockNumber IN
         IF blockDelay > MAX_BLOCK_DELAY
         THEN Probe("DONE", "out_of_sync", 15, {}, {})
         ELSE Probe("DONE", NoKey, 0, {"out_of_sync"}, {"out_of_sync"})

----------------------------------------------------------------------------
\* Version comparison (WebSocket monitor, lines 144-183).  A string is the
\* sequence of its characters.

DigitChars == <<"0", "1", "2", "3", "4", "5", "6", "7", "8", "9">>

IsDigit(c) == \E i \in 1..Len(DigitChars) : DigitChars[i] = c

DigitValue(c) == (CHOOSE i \in 1..Len(DigitChars) : DigitChars[i] = c) - 1

\* \d+ from position i: the position after the longest run of digits
RECURSIVE DigitsEnd(_, _)
DigitsEnd(text, i) ==
    IF i <= Len(text) /\ IsDigit(text[i]) THEN DigitsEnd(text, i + 1) ELSE i

\* parseInt of a run of digits
RECURSIVE ParseInt(_)
ParseInt(digits) ==
    IF Len(digits) = 0 THEN 0
    ELSE ParseInt(SubSeq(digits, 1, Len(digits) - 1)) * 10
         + DigitValue(digits[Len(digits)])

\* /(\d+)\.(\d+)\.(\d+)/ tried at position i: the ends of the three groups, or
\* <<>> when it does not match there.  A shorter first or second run never helps,
\* since the character after it would be a digit and not the dot.
MatchAt(text, i) ==
    LET e1 == DigitsEnd(text, i)
        e2 == DigitsEnd(text, e1 + 1)
        e3 == DigitsEnd(text, e2 + 1)
    IN  IF /\ e1 > i
           /\ e1 <= Len(text) /\ text[e1] = "."
           /\ e2 > e1 + 1
           /\ e2 <= Len(text) /\ text[e2] = "."
           /\ e3 > e2 + 1
        THEN <<e1, e2, e3>>
        ELSE <<>>

NullVersion == [ok |-> FALSE, major |-> 0, minor |-> 0, patch |-> 0]

\* parseVersion (lines 144-154): the leftmost match
parseVersion(versionString) ==
    LET starts == {i \in 1..Len(versionString) : MatchAt(versionString, i) # <<>>} IN
    IF starts = {} THEN NullVersion
    ELSE LET i == CHOOSE j \in starts : \A k \in starts : j <= k
             m == MatchAt(versionString, i)
         IN  [ok |-> TRUE,
              major |-> ParseInt(SubSeq(versionString, i, m[1] - 1)),
              minor |-> ParseInt(SubSeq(versionString, m[1] + 1, m[2] - 1)),
              patch |-> ParseInt(SubSeq(versionString, m[2] + 1, m[3] - 1))]

Comparison(outdated, severity, message) ==
    [outdated |-> outdated, severity |-> severity, message |-> message]

compareVersions_noAhead(current, latest) ==
    LET curr == parseVersion(current)
        lat == parseVersion(latest)
    IN  IF ~curr.ok \/ ~lat.ok
        THEN Comparison("null", "-", "Unable to parse versions")
        ELSE IF curr.major < lat.major
        THEN Comparison("true", "critical", "Major version behind")
        ELSE IF curr.minor < lat.minor
        THEN Comparison("true", "warning", "Minor version behind")
        ELSE IF curr.patch < lat.patch
        THEN Comparison("true", "info", "Patch version behind")
        ELSE Comparison("false", "-", "Up to date")

\* compareVersions (lines 156-183)
compareVersions(current, latest) ==
    LET curr == parseVersion(current)
        lat == parseVersion(latest)
    IN  IF ~curr.ok \/ ~lat.ok
        THEN Comparison("null", "-", "Unable to parse versions")
        ELSE IF curr.major < lat.major
        THEN Comparison("true", "critical", "Major version behind")
        ELSE IF curr.major > lat.major
        THEN Comparison("false", "-", "Ahead of latest")
        ELSE IF curr.minor < lat.minor
        THEN Comparison("true", "warning", "Minor version behind")
        ELSE IF curr.minor > lat.minor
        THEN Comparison("false", "-", "Ahead of latest")
        ELSE IF curr.patch < lat.patch
        THEN Comparison("true", "info", "Patch version behind")
        ELSE Comparison("false", "-", "Up to date")

\* Version strings handed to compareVersions: the decimal rendering of a triple,
\* and strings that hold no triple
RECURSIVE Decimal(_)
Decimal(n) ==
    IF n < 10 THEN <<DigitChars[n + 1]>>
    ELSE Decimal(n \div 10) \o <<DigitChars[(n % 10) + 1]>>

Dotted(triple) ==
    Decimal(triple[1]) \o <<".">> \o Decimal(triple[2]) \o <<".">> \o Decimal(triple[3])

VersionNumbers == {0, 1, 9, 10}
VersionTriples == VersionNumbers \X VersionNumbers \X VersionNumbers
Unparsable == {<<"1", ".", "2">>, <<"n", "i", "g", "h", "t", "l", "y">>, <<>>}

VersionStrings ==
    {[text |-> Dotted(t), parsable |-> TRUE, triple |-> t] : t \in VersionTriples}
    \cup {[text |-> u, parsable |-> FALSE, triple |-> <<0, 0, 0>>] : u \in Unparsable}

----------------------------------------------------------------------------
\* Polling monitor: runChecks (lines 795-840) and the CLI (lines 857-873)

Cycle == <<"chainId", "syncStatus", "blockConsistency", "blockTimestamp", "return">>

NextPc(p) == Cycle[(CHOOSE i \in 1..Len(Cycle) : Cycle[i] = p) + 1]

ReferenceTuples(answers) == [1..NumReferences -> answers]

AfterProbe_abort(p, observed) ==
    IF observed = "THROWN" THEN "return" ELSE NextPc(p)

\* the for loop of lines 814-827: where runChecks goes after the probe at p
\* returned or threw; both branches of the try fall through to the next check
AfterProbe(p, observed) == NextPc(p)

RunChecksCode_warn(errors, warnings) == IF errors \/ warnings THEN 1 ELSE 0

\* lines 830-839
RunChecksCode(errors, warnings) ==
    IF errors THEN 1 ELSE IF warnings THEN 0 ELSE 0

\* lines 816-825: the flags after a probe returned `status` or threw
RunChecksFlags(status) ==
    /\ hasErrors' = IF status = "THROWN" THEN TRUE
                    ELSE IF status = "ERROR" THEN TRUE ELSE hasErrors
    /\ hasWarnings' = IF status = "WARNING" THEN TRUE ELSE hasWarnings

\* One iteration of the for loop (lines 814-827) around the probe's answer
RunCheck(probe) ==
    /\ ProbeStep(probe)
    /\ RunChecksFlags(ev'.observed)
    /\ sawError' = (sawError \/ ev'.observed \in {"ERROR", "THROWN"})
    /\ sawWarning' = (sawWarning \/ ev'.observed = "WARNING")
    /\ pc' = AfterProbe(pc, ev'.observed)
    /\ ran' = Append(ran, pc)
    /\ UNCHANGED <<now, telegramEnabled, mode, exitCode, fnVars, wsVars>>

\* runChecks is entered: by the CLI, or by the interval timer of
\* startContinuousMonitoring (lines 842-854)
StartRunChecks ==
    /\ pc = "idle"
    /\ pc' = "chainId"
    /\ sawError' = FALSE
    /\ sawWarning' = FALSE
    /\ hasErrors' = FALSE
    /\ hasWarnings' = FALSE
    /\ exitCode' = NoCode
    /\ ran' = <<>>
    /\ NoGateStep
    /\ UNCHANGED <<now, mode, fnVars, wsVars>>

\* What each probe can answer, over all answers of the collaborators
ChainIdProbes == {Poll_checkChainId(network) : network \in ChainIdAnswers}
SyncStatusProbes ==
    {Poll_checkSyncStatus(m, refs) :
        m \in MonitoredAnswers, refs \in ReferenceTuples(ReferenceAnswers)}
BlockConsistencyProbes ==
    {Poll_checkBlockConsistency(m, data, refs) :
        m \in MonitoredAnswers, data \in BlockAnswers,
        refs \in ReferenceTuples(BlockAnswers)}
BlockTimestampProbes == {Poll_checkBlockTimestamp(b) : b \in LatestBlockAnswers}

RunChainId ==
    /\ pc = "chainId"
    /\ \E probe \in ChainIdProbes : RunCheck(probe)

RunSyncStatus ==
    /\ pc = "syncStatus"
    /\ \E probe \in SyncStatusProbes : RunCheck(probe)

RunBlockConsistency ==
    /\ pc = "blockConsistency"
    /\ \E probe \in BlockConsistencyProbes : RunCheck(probe)

RunBlockTimestamp ==
    /\ pc = "blockTimestamp"
    /\ \E probe \in BlockTimestampProbes : RunCheck(probe)

AfterRunChecks_exitOnError(m, code) ==
    IF m = "oneshot" \/ code = 1 THEN "exit" ELSE "idle"

\* what the caller of runChecks does with the code: the CLI passes it to
\* process.exit (line 868); startContinuousMonitoring and its interval callback
\* drop it (lines 847, 850-853) and the interval timer stays armed
AfterRunChecks(m, code) == IF m = "oneshot" THEN "exit" ELSE "idle"

\* runChecks returns its code
RunChecksReturn ==
    /\ pc = "return"
    /\ exitCode' = RunChecksCode(hasErrors, hasWarnings)
    /\ pc' = AfterRunChecks(mode, exitCode')
    /\ NoGateStep
    /\ UNCHANGED <<now, mode, hasErrors, hasWarnings, sawError, sawWarning, ran,
                   fnVars, wsVars>>

\* .then(exitCode => process.exit(exitCode)) (line 868)
ProcessExit ==
    /\ pc = "exit"
    /\ pc' = "exited"
    /\ NoGateStep
    /\ UNCHANGED <<now, mode, hasErrors, hasWarnings, exitCode, sawError,
                   sawWarning, ran, fnVars, wsVars>>

\* Time passes
Tick ==
    /\ pc # "exited"
    /\ \E m \in TickMinutes :
          /\ now + m * MsPerMinute <= StartTime + MaxElapsedMin * MsPerMinute
          /\ now' = now + m * MsPerMinute
    /\ NoGateStep
    /\ UNCHANGED <<pollVars, fnVars, wsVars>>

EmptyRun == [len |-> 0, first |-> NoTime, last |-> NoTime, sent |-> 0]

GateInitAt(t) ==
    /\ now = t
    /\ lastAlerts = <<>>
    /\ telegramEnabled \in BOOLEAN
    /\ ev = NoEvent
    /\ cleared = {}
    /\ lastFire = [k \in AlertKeys |-> NoTime]
    /\ lastNotif = [k \in AlertKeys |-> NoTime]
    /\ staleRun = EmptyRun

GateInit == GateInitAt(StartTime)

\* the monitor object the constructor builds at Date.now() = t (lines 36-59)
PushObject(t, metricsUrl, consensusUrl) ==
           [started |-> FALSE, metricsUrl |-> metricsUrl, consensusUrl |-> consensusUrl,
            lastBlockTime |-> t, lastBlockNumber |-> 0,
            lastMetricsCheck |-> 0, lastVersionCheck |-> 0,
            handlers |-> {}, delivered |-> 0,
            heartbeatDue |-> NoTime, consensusDue |-> NoTime,
            ticks |-> 0, jumps |-> 0,
            observedAt |-> NoTime, prevObservedAt |-> NoTime,
            handledAt |-> NoTime,
            metricsChecks |-> FALSE, versionChecks |-> FALSE,
            metricsFetchAt |-> NoTime, versionCheckAt |-> NoTime,
            steady |-> FALSE]

WsObject ==
    [phase |-> "init", reconnectAttempts |-> 0, wsProvider |-> "null",
     awaitingBlockNumber |-> FALSE, pendingRejects |-> 0, orphans |-> 0,
     reconnectTimers |-> 0, reconnectDelay |-> 0, failedInARow |-> 0,
     fatalSent |-> FALSE]

WsIdle ==
    /\ push = PushObject(StartTime, TRUE, TRUE)
    /\ ws = WsObject

PollIdle ==
    /\ pc = "idle"
    /\ hasErrors = FALSE
    /\ hasWarnings = FALSE
    /\ exitCode = NoCode
    /\ sawError = FALSE
    /\ sawWarning = FALSE
    /\ ran = <<>>

FnIdle ==
    /\ fnOp = "none"
    /\ fnDone = FALSE
    /\ fnIn = <<>>
    /\ fnRet = <<>>

\* The polling monitor constructed with Telegram configured (lines 557-559);
\* without it sendTelegramAlert only logs (lines 571-574)
Init ==
    /\ GateInit
    /\ telegramEnabled
    /\ mode \in {"oneshot", "continuous"}
    /\ PollIdle
    /\ FnIdle
    /\ WsIdle

Next ==
    \/ StartRunChecks
    \/ RunChainId
    \/ RunSyncStatus
    \/ RunBlockConsistency
    \/ RunBlockTimestamp
    \/ RunChecksReturn
    \/ ProcessExit
    \/ Tick

Spec == Init /\ [][Next]_vars

----------------------------------------------------------------------------
\* The functions on their own: the arguments are drawn at the start and the
\* function is applied to them

SyncArgs == [monitored : MonitoredAnswers, references : ReferenceTuples(ReferenceAnswers)]
ConsistencyArgs == [monitoredBlock : MonitoredAnswers, monitoredData : BlockAnswers,
                    referenceBlocks : ReferenceTuples(BlockAnswers)]
VersionArgs == [current : VersionStrings, latest : VersionStrings]
BlockSyncArgs == [blockNumber : MonitoredHeights,
                  references : ReferenceTuples(ReferenceAnswers)]

FnArgs(op) ==
    IF op = "getCanonicalBlock" THEN ReferenceTuples(ReferenceAnswers)
    ELSE IF op \in {"Poll_checkSyncStatus", "OneShot_checkSyncStatus"} THEN SyncArgs
    ELSE IF op \in {"Poll_checkBlockConsistency", "OneShot_checkBlockConsistency"}
         THEN ConsistencyArgs
    ELSE IF op = "handleNewBlock_sync" THEN BlockSyncArgs
    ELSE VersionArgs

FnOps == {"getCanonicalBlock", "Poll_checkSyncStatus", "OneShot_checkSyncStatus",
          "Poll_checkBlockConsistency", "OneShot_checkBlockConsistency",
          "compareVersions", "handleNewBlock_sync"}

InitFn ==
    /\ GateInit
    /\ mode = "oneshot"
    /\ PollIdle
    /\ WsIdle
    /\ fnOp \in FnOps
    /\ fnIn \in FnArgs(fnOp)
    /\ fnDone = FALSE
    /\ fnRet = <<>>

Apply(op, value) ==
    /\ fnOp = op
    /\ ~fnDone
    /\ fnDone' = TRUE
    /\ fnRet' = value
    /\ UNCHANGED <<fnOp, fnIn, now, lastAlerts, telegramEnabled, pollVars, gateVars,
                   wsVars>>

ApplyGetCanonicalBlock ==
    Apply("getCanonicalBlock", getCanonicalBlock(fnIn))

ApplyPollCheckSyncStatus ==
    Apply("Poll_checkSyncStatus",
          Poll_checkSyncStatus(fnIn.monitored, fnIn.references))

ApplyOneShotCheckSyncStatus ==
    Apply("OneShot_checkSyncStatus",
          OneShot_checkSyncStatus(fnIn.monitored, fnIn.references))

ApplyPollCheckBlockConsistency ==
    Apply("Poll_checkBlockConsistency",
          Poll_checkBlockConsistency(fnIn.monitoredBlock, fnIn.monitoredData,
                                     fnIn.referenceBlocks))

ApplyOneShotCheckBlockConsistency ==
    Apply("OneShot_checkBlockConsistency",
          OneShot_checkBlockConsistency(fnIn.monitoredBlock, fnIn.monitoredData,
                                        fnIn.referenceBlocks))

ApplyCompareVersions ==
    Apply("compareVersions", compareVersions(fnIn.current.text, fnIn.latest.text))

ApplyHandleNewBlockSync ==
    Apply("handleNewBlock_sync",
          handleNewBlock_sync(fnIn.blockNumber, fnIn.references))

NextFn ==
    \/ ApplyGetCanonicalBlock
    \/ ApplyPollCheckSyncStatus
    \/ ApplyOneShotCheckSyncStatus
    \/ ApplyPollCheckBlockConsistency
    \/ ApplyOneShotCheckBlockConsistency
    \/ ApplyCompareVersions
    \/ ApplyHandleNewBlockSync

SpecFn == InitFn /\ [][NextFn]_vars

----------------------------------------------------------------------------
\* Properties of the alert gate and the polling monitor (checked under Spec)

\* C1: a shouldSendAlert(k, c) call returns true exactly when k has not fired
\* since it last had no entry, or at least c minutes have passed since its last
\* true result; a true result restarts the window at the time of the call.
C1_GateCooldown ==
    ev.gated # NoKey =>
        /\ ev.ret = (\/ ev.prevFire = NoTime
                     \/ now - ev.prevFire >= ev.cooldown * MsPerMinute)
        /\ ev.ret => /\ MapGet(lastAlerts, ev.gated) = now
                     /\ lastFire[ev.gated] = now

\* a call that returns true again once the cooldown has passed
C1_Witness ==
    /\ ev.gated # NoKey
    /\ ev.ret
    /\ ev.prevFire # NoTime
    /\ now - ev.prevFire >= ev.cooldown * MsPerMinute

\* C2: shouldSendAlert on a key whose last operation was a delete returns true,
\* whatever the time.
C2_ClearThenFire == ev.afterClear => ev.ret

\* a key is deleted and fires again with no time elapsed since the start
C2_Witness ==
    /\ ev.afterClear
    /\ ev.ret
    /\ now = StartTime
    /\ MapGet(lastAlerts, ev.gated) = now

\* C3: with no healthy observation in between, two notifications for a key are
\* at least its cooldown apart; and a run of consecutive stale-block
\* observations that fits in one cooldown window sends exactly one notification.
C3_OncePerWindow ==
    /\ (ev.gated # NoKey /\ ev.ret /\ ev.prevNotif # NoTime)
          => now - ev.prevNotif >= ev.cooldown * MsPerMinute
    /\ (staleRun.len >= 1 /\ staleRun.last - staleRun.first < 60 * MsPerMinute)
          => staleRun.sent = 1

\* three consecutive stale observations inside the window, one notification
C3_Witness ==
    /\ staleRun.len = 3
    /\ staleRun.last - staleRun.first < 60 * MsPerMinute
    /\ staleRun.sent = 1
    /\ ev.gated = "stale_block"
    /\ ~ev.ret

\* C4 (as claimed): when a probe sees the condition of a key healthy after a
\* notification for it, the key has no entry afterwards.
C4_RecoveryRearms == \A k \in ev.notified : k \notin DOMAIN lastAlerts

\* C9: runChecks returns 1 exactly when a probe of the cycle returned ERROR or
\* threw, and 0 otherwise, warnings or not.
C9_ExitCode ==
    exitCode # NoCode => exitCode = (IF sawError THEN 1 ELSE 0)

\* a one-shot run with a warning and no error exits with 0
C9_Witness ==
    /\ pc = "exited"
    /\ sawWarning
    /\ ~sawError
    /\ exitCode = 0

\* C14: when sendMessage rejects, sendTelegramAlert has called it once, does not
\* throw, and the caller of the probe sees the status the probe returns on a
\* successful delivery; the gate has stamped the key as for a delivered message.
C14_DeliveryFailureAbsorbed ==
    (ev.gated # NoKey /\ ev.ret /\ ev.outcome = "rejects") =>
        /\ ev.send.calls = 1
        /\ ~ev.send.threw
        /\ ev.observed = ev.status
        /\ MapGet(lastAlerts, ev.gated) = now

\* a mismatching chain id is notified, the delivery fails, and checkChainId
\* still returns ERROR
C14_Witness ==
    /\ ev.gated = "wrong_chain_id"
    /\ ev.ret
    /\ ev.outcome = "rejects"
    /\ ~ev.send.delivered
    /\ ev.observed = "ERROR"
    /\ pc = "syncStatus"

\* C15: when runChecks has gone through its loop, the four probes have run
\* once each, in the order chain id, sync status, block consistency, block
\* timestamp, whatever any of them returned or threw; and a probe that threw or
\* returned ERROR has set hasErrors.
C15_EveryProbeRuns ==
    /\ exitCode # NoCode \/ pc = "return" =>
          ran = <<"chainId", "syncStatus", "blockConsistency", "blockTimestamp">>
    /\ sawError => hasErrors
    /\ \A i \in 1..Len(ran) : ran[i] = Cycle[i]

\* a probe before the last one threw or returned ERROR, and the cycle went on
\* to the last probe, which returned OK
C15_Witness ==
    /\ pc = "return"
    /\ Len(ran) = 4
    /\ hasErrors
    /\ ev.observed = "OK"

\* C17: in continuous mode the process never reaches process.exit, whatever
\* the cycles return, and whenever no cycle is running the next one can start:
\* nothing stops the repetition.
C17_ContinuousNeverExits ==
    mode = "continuous" =>
        /\ pc \notin {"exit", "exited"}
        /\ pc = "idle" => ENABLED StartRunChecks

\* in continuous mode a cycle has ended with errors and the next cycle has
\* started
C17_Witness ==
    /\ mode = "continuous"
    /\ pc = "chainId"
    /\ "sync_check_failed" \in DOMAIN lastAlerts
    /\ "wrong_chain_id" \in DOMAIN lastAlerts

----------------------------------------------------------------------------
\* Properties of the functions (checked under SpecFn)

FulfilledValues(settled) ==
    {settled[i].value : i \in {j \in DOMAIN settled : settled[j].status = "fulfilled"}}

C6_SyncLagDecision ==
    (/\ fnOp \in {"Poll_checkSyncStatus", "OneShot_checkSyncStatus"}
     /\ fnDone
     /\ fnIn.monitored.status = "fulfilled"
     /\ FulfilledValues(fnIn.references) # {}) =>
        LET heights == FulfilledValues(fnIn.references)
            canonical == CHOOSE h \in heights : \A g \in heights : g <= h
            lag == canonical - fnIn.monitored.value
        IN  fnRet.status = IF lag > 10 \/ lag < 0 - 5 THEN "WARNING" ELSE "OK"

\* C7 (as claimed): when every reference that answers returns a block, the
\* probe returns OK if the monitored hash equals the hash of at least one of
\* them, and ERROR if it equals none.
C7_ForkDecision ==
    (/\ fnOp \in {"Poll_checkBlockConsistency", "OneShot_checkBlockConsistency"}
     /\ fnDone
     /\ fnIn.monitoredBlock.status = "fulfilled"
     /\ fnIn.monitoredData.status = "fulfilled"
     /\ fnIn.monitoredData.value # NullBlock
     /\ FulfilledValues(fnIn.referenceBlocks) # {}
     /\ NullBlock \notin FulfilledValues(fnIn.referenceBlocks)) =>
        fnRet.status =
            IF fnIn.monitoredData.value \in FulfilledValues(fnIn.referenceBlocks)
            THEN "OK" ELSE "ERROR"

LexLess(a, b) ==
    \/ a[1] < b[1]
    \/ a[1] = b[1] /\ a[2] < b[2]
    \/ a[1] = b[1] /\ a[2] = b[2] /\ a[3] < b[3]

\* C8: on two parsable versions compareVersions reports outdated exactly when
\* the current triple is smaller than the latest one, compared as integers from
\* the left.
C8_CompareVersions ==
    (fnOp = "compareVersions" /\ fnDone
        /\ fnIn.current.parsable /\ fnIn.latest.parsable) =>
        fnRet.outdated =
            IF LexLess(fnIn.current.triple, fnIn.latest.triple) THEN "true" ELSE "false"

\* 1.10.0 against 1.9.0 is not outdated
C8_Witness ==
    /\ fnOp = "compareVersions"
    /\ fnDone
    /\ fnIn.current.triple = <<1, 10, 0>>
    /\ fnIn.latest.triple = <<1, 9, 0>>
    /\ fnIn.current.parsable /\ fnIn.latest.parsable
    /\ fnRet.outdated = "false"

\* C12 (as claimed): when no reference answers, no caller of getCanonicalBlock
\* sends a notification for it, reports an error status or lets the failure
\* out of the probe.
C12_NoReferenceIndeterminate ==
    (/\ fnOp \in {"Poll_checkSyncStatus", "OneShot_checkSyncStatus",
                  "handleNewBlock_sync"}
     /\ fnDone
     /\ fnOp # "handleNewBlock_sync" => fnIn.monitored.status = "fulfilled"
     /\ FulfilledValues(fnIn.references) = {}) =>
        /\ fnRet.gated = NoKey
        /\ fnRet.status \notin {"ERROR", "THROWN"}

----------------------------------------------------------------------------
\* WebSocket monitor: connection handling (lines 369-443).
\*
\* new ethers.WebSocketProvider(url) either throws at once (the catch of
\* setupWebSocketConnection runs) or returns with the socket still connecting;
\* a socket that fails to connect, or is lost later, emits 'error' and 'close'.
\* The getBlockNumber of line 408 resolves when the socket opens; when its
\* provider dies first it either never settles or rejects (the library's choice).
\* A provider that is destroyed while its socket is not closed leaves a socket
\* that still emits 'close', with the handler of line 399 attached.

RECURSIVE Pow2(_)
Pow2(n) == IF n = 0 THEN 1 ELSE 2 * Pow2(n - 1)

Min(a, b) == IF a < b THEN a ELSE b

\* line 427, attempts being this.reconnectAttempts after the increment
BackoffDelay(attempts) == Min(BackoffBaseMs * Pow2(attempts), BackoffCapMs)

Fates == {"never", "rejects"}

\* reconnect (lines 417-443) entered in state w.  socketClosed: the socket of
\* this.wsProvider has closed already (the call comes from its own 'close'
\* event); fate: what becomes of a getBlockNumber still pending on the provider
\* destroyed here.
reconnect(w, socketClosed, fate) ==
    IF w.reconnectAttempts >= maxReconnectAttempts
    THEN [w EXCEPT !.fatalSent = TRUE, !.phase = "exited"]
    ELSE [w EXCEPT
            !.reconnectAttempts = w.reconnectAttempts + 1,
            !.reconnectDelay = BackoffDelay(w.reconnectAttempts + 1),
            !.wsProvider = "null",
            !.orphans = IF w.wsProvider # "null" /\ ~socketClosed
                        THEN w.orphans + 1 ELSE w.orphans,
            !.awaitingBlockNumber = FALSE,
            !.pendingRejects = IF w.awaitingBlockNumber /\ fate = "rejects"
                               THEN w.pendingRejects + 1 ELSE w.pendingRejects,
            !.reconnectTimers = w.reconnectTimers + 1]

\* setupWebSocketConnection (lines 369-415) entered in state w, up to its await.
\* constructed: the provider constructor returned; otherwise it threw.
setupWebSocketConnection(w, constructed, fate) ==
    IF constructed
    THEN [w EXCEPT
            !.wsProvider = "connecting",
            !.orphans = IF w.wsProvider # "null" THEN w.orphans + 1 ELSE w.orphans,
            !.pendingRejects = IF w.awaitingBlockNumber /\ fate = "rejects"
                               THEN w.pendingRejects + 1 ELSE w.pendingRejects,
            !.awaitingBlockNumber = TRUE,
            !.reconnectAttempts = 0]
    ELSE reconnect([w EXCEPT !.failedInARow = w.failedInARow + 1], FALSE, fate)

WithinBounds ==
    /\ ws.pendingRejects < MaxPending
    /\ ws.orphans < MaxPending
    /\ ws.reconnectTimers < MaxPending
    /\ ws.failedInARow < MaxFailedInARow

WsQuiet == NoGateStep /\ UNCHANGED <<now, pollVars, fnVars, push>>

\* startMonitoring (lines 473-499): the first connection attempt
Ws_startMonitoring ==
    /\ ws.phase = "init"
    /\ \E constructed \in BOOLEAN, fate \in Fates :
          ws' = setupWebSocketConnection([ws EXCEPT !.phase = "running"],
                                         constructed, fate)
    /\ WsQuiet

\* the setTimeout callback of reconnect (lines 440-442)
Ws_reconnectTimer ==
    /\ ws.phase = "running"
    /\ ws.reconnectTimers > 0
    /\ WithinBounds
    /\ \E constructed \in BOOLEAN, fate \in Fates :
          ws' = setupWebSocketConnection(
                    [ws EXCEPT !.reconnectTimers = ws.reconnectTimers - 1],
                    constructed, fate)
    /\ WsQuiet

\* the socket of this.wsProvider opens; the getBlockNumber of line 408 resolves
Ws_socketOpen ==
    /\ ws.phase = "running"
    /\ ws.wsProvider = "connecting"
    /\ ws' = [ws EXCEPT !.wsProvider = "open", !.awaitingBlockNumber = FALSE,
                        !.failedInARow = 0]
    /\ WsQuiet

\* ws.on('error') (lines 390-397)
Ws_socketError ==
    /\ ws.phase = "running"
    /\ ws.wsProvider # "null"
    /\ GateStep("ws_error", 30, {}, {})
    /\ UNCHANGED <<now, telegramEnabled, pollVars, fnVars, ws, push>>

\* ws.on('close') (lines 399-402) of the socket of this.wsProvider
Ws_socketClose ==
    /\ ws.phase = "running"
    /\ ws.wsProvider # "null"
    /\ WithinBounds
    /\ \E fate \in Fates :
          ws' = reconnect(
                    [ws EXCEPT !.failedInARow =
                        IF ws.wsProvider = "connecting" THEN @ + 1 ELSE @],
                    TRUE, fate)
    /\ WsQuiet

\* ws.on('close') of a socket whose provider was destroyed or replaced
Ws_orphanClose ==
    /\ ws.phase = "running"
    /\ ws.orphans > 0
    /\ WithinBounds
    /\ \E fate \in Fates :
          ws' = reconnect([ws EXCEPT !.orphans = ws.orphans - 1], FALSE, fate)
    /\ WsQuiet

\* the getBlockNumber of line 408 rejects; the catch (lines 411-414) runs
Ws_getBlockNumberRejects ==
    /\ ws.phase = "running"
    /\ ws.pendingRejects > 0
    /\ WithinBounds
    /\ \E fate \in Fates :
          ws' = reconnect([ws EXCEPT !.pendingRejects = ws.pendingRejects - 1],
                          FALSE, fate)
    /\ WsQuiet

WsTick ==
    /\ ws.phase = "running"
    /\ Tick

InitWs ==
    /\ GateInit
    /\ mode = "continuous"
    /\ PollIdle
    /\ FnIdle
    /\ WsIdle

NextWs ==
    \/ Ws_startMonitoring
    \/ Ws_reconnectTimer
    \/ Ws_socketOpen
    \/ Ws_socketError
    \/ Ws_socketClose
    \/ Ws_orphanClose
    \/ Ws_getBlockNumberRejects
    \/ WsTick

SpecWs == InitWs /\ [][NextWs]_vars

\* C10 (as claimed): the monitor does not keep retrying: while the process
\* runs, no more connection attempts have failed in a row than the first one
\* and the maxReconnectAttempts retries.
C10_ReconnectTerminates ==
    ws.phase = "running" => ws.failedInARow <= maxReconnectAttempts + 1

\* C11 (as claimed): the delay scheduled before the n-th consecutive
\* reconnection attempt is min(1 s * 2^(n-1), 60 s), n being
\* this.reconnectAttempts once reconnect has counted the attempt.
C11_BackoffSchedule ==
    (ws.phase = "running" /\ ws.reconnectAttempts >= 1) =>
        ws.reconnectDelay =
            Min(BackoffBaseMs * Pow2(ws.reconnectAttempts - 1), BackoffCapMs)

----------------------------------------------------------------------------
\* WebSocket monitor: the block handler, the slow probes and the interval timers
\* (lines 201-367, 376-385, 445-519).
\*
\* The listener of 'block' events is an async function the provider does not
\* wait for: a handler stands at one of its awaits while other handlers and
\* timer callbacks run.  A handler is followed from await to await: getBlock
\* (taken together with the delivery of the event), getCanonicalBlock,
\* fetchMetrics, then the two gate calls of checkMetrics, and the two version
\* checks.  The awaits of shouldSendAlert and sendTelegramAlert are taken
\* together with the code after them.

\* the stall check of handleNewBlock (lines 202-218)
handleNewBlock_stall(timeSinceLastBlock) ==
    IF timeSinceLastBlock > BLOCK_TIME_THRESHOLD_MS
    THEN Probe("DONE", "block_stall", 10, {}, {})
    ELSE Probe("DONE", NoKey, 0, {"block_stall"}, {"block_stall"})

\* checkMetrics if it stamped lastMetricsCheck only after fetchMetrics had
\* settled: nothing is stamped when the fetch starts
checkMetrics_start_stampAfterFetch(p, t) ==
    IF t - p.lastMetricsCheck < METRICS_POLL_INTERVAL_MS
    THEN [push |-> p, fetch |-> FALSE]
    ELSE [push |-> [p EXCEPT !.metricsChecks = @ \/ p.metricsUrl,
                             !.metricsFetchAt = IF p.metricsUrl THEN t ELSE @],
          fetch |-> p.metricsUrl]

\* checkMetrics up to its await (lines 246-255): the monitor afterwards and
\* whether fetchMetrics is called
checkMetrics_start(p, t) ==
    IF t - p.lastMetricsCheck < METRICS_POLL_INTERVAL_MS
    THEN [push |-> p, fetch |-> FALSE]
    ELSE [push |-> [p EXCEPT !.lastMetricsCheck = t,
                             !.metricsChecks = @ \/ p.metricsUrl,
                             !.metricsFetchAt = IF p.metricsUrl THEN t ELSE @],
          fetch |-> p.metricsUrl]

\* checkVersions up to its first await (lines 295-308)
checkVersions_start(p, t) ==
    IF t - p.lastVersionCheck < VERSION_CHECK_INTERVAL_MS
    THEN [push |-> p, run |-> FALSE]
    ELSE [push |-> [p EXCEPT !.lastVersionCheck = t, !.versionChecks = TRUE,
                             !.versionCheckAt = t],
          run |-> TRUE]

\* checkMetrics after fetchMetrics (lines 255-264); fetchMetrics gives null for
\* any failure of the request
checkMetrics_fetched(metrics) ==
    IF metrics = "null"
    THEN Probe("CAUGHT", "reth_metrics_unavailable", 60, {}, {})
    ELSE Probe("DONE", NoKey, 0, {"reth_metrics_unavailable"},
               {"reth_metrics_unavailable"})

\* a metric the endpoint does not report
Undefined == 0 - 1

\* no HTTP status: the request failed
Unreachable == 0 - 1

\* the peer count of checkMetrics (lines 266-276)
checkMetrics_peers(peers) ==
    IF peers = Undefined THEN Probe("DONE", NoKey, 0, {}, {})
    ELSE IF peers < MAX_PEER_COUNT_LOW
         THEN Probe("DONE", "low_peers", 30, {}, {})
         ELSE Probe("DONE", NoKey, 0, {"low_peers"}, {"low_peers"})

\* the memory usage of checkMetrics (lines 278-290)
checkMetrics_memory(memoryMB) ==
    IF memoryMB = Undefined THEN Probe("DONE", NoKey, 0, {}, {})
    ELSE IF memoryMB > MAX_MEMORY_MB
         THEN Probe("DONE", "high_memory", 60, {}, {})
         ELSE Probe("DONE", NoKey, 0, {"high_memory"}, {"high_memory"})

\* one version check of checkVersions (lines 306-332 with key reth_outdated,
\* 336-365 with key lighthouse_outdated).  client is what the version request
\* gives: it throws, the banner does not match the regex of line 309 / 342
\* ("nomatch"), or the version captured; release is what
\* getLatestGitHubRelease gives: it throws, or the version.  An outdated client
\* gives as status the message of the comparison.
checkVersions_client(key, client, release) ==
    IF client.kind = "throws" THEN Probe("CAUGHT", NoKey, 0, {}, {})
    ELSE IF client.kind = "nomatch" THEN Probe("NOMATCH", NoKey, 0, {}, {})
    ELSE IF release.kind = "throws" THEN Probe("CAUGHT", NoKey, 0, {}, {})
    ELSE LET comparison == compareVersions(client.text, release.text) IN
         IF comparison.outdated = "true"
         THEN Probe(comparison.message, key, 360, {}, {})
         ELSE IF comparison.outdated = "null"
              THEN Probe("UNPARSABLE", NoKey, 0, {key}, {})
              ELSE Probe("CURRENT", NoKey, 0, {key}, {key})

\* what checkConsensusHealth met, as the status of its probe: no endpoint, a
\* request that failed, or the HTTP status of the response
HealthSeen(configured, health) ==
    IF ~configured THEN "UNCONFIGURED"
    ELSE IF health = Unreachable THEN "UNREACHABLE"
    ELSE IF health = 200 THEN "HTTP 200"
    ELSE IF health = 206 THEN "HTTP 206"
    ELSE "HTTP other"

checkConsensusHealth_only200(configured, health) ==
    IF ~configured THEN Probe(HealthSeen(configured, health), NoKey, 0, {}, {})
    ELSE IF health = Unreachable
         THEN Probe(HealthSeen(configured, health), "consensus_down", 30, {}, {})
         ELSE IF health # 200
              THEN Probe(HealthSeen(configured, health), "consensus_not_synced",
                         30, {}, {})
              ELSE Probe(HealthSeen(configured, health), NoKey, 0,
                         {"consensus_not_synced"}, {"consensus_not_synced"})

\* checkConsensusHealth (lines 445-471); health is the HTTP status of the health
\* endpoint (validateStatus accepts every status), or Unreachable
checkConsensusHealth(configured, health) ==
    IF ~configured THEN Probe(HealthSeen(configured, health), NoKey, 0, {}, {})
    ELSE IF health = Unreachable
         THEN Probe(HealthSeen(configured, health), "consensus_down", 30, {}, {})
         ELSE IF health # 200 /\ health # 206
              THEN Probe(HealthSeen(configured, health), "consensus_not_synced",
                         30, {}, {})
              ELSE Probe(HealthSeen(configured, health), NoKey, 0,
                         {"consensus_not_synced"}, {"consensus_not_synced"})

\* the heartbeat callback (lines 507-519)
heartbeat(timeSinceLastBlock) ==
    IF timeSinceLastBlock > NO_BLOCKS_THRESHOLD_MS
    THEN Probe("NO_BLOCKS", "no_blocks", 15, {}, {})
    ELSE Probe("BLOCKS", NoKey, 0, {}, {})

Caught_unhandled(w) == [w EXCEPT !.phase = "exited"]

\* an error that a catch of the monitor takes (lines 73-75, 116-118, 237-239,
\* 330-332, 363-365, 382-384, 465-470): it is logged or turned into an alert,
\* and the process goes on
Caught(w) == w

\* What the collaborators of the WebSocket monitor answer
GetBlockAnswers == {"block", NullBlock, "throws"}
PushReferenceHeights == {100, 113}
PushReferenceAnswers == {Fulfilled(h) : h \in PushReferenceHeights} \cup {RejectedNum}
FetchMetricsAnswers == {"null", "metrics"}
PeerCounts == {Undefined, 9, 10}
MemoryMBs == {Undefined, 16000, 16001}
HealthAnswers == {200, 206, 503, Unreachable}

\* the versions a banner can hold after /v?([0-9.]+)/: digits and dots
CapturedVersions ==
    {v.text : v \in {w \in VersionStrings :
                        \A i \in 1..Len(w.text) : IsDigit(w.text[i]) \/ w.text[i] = "."}}
    \ {<<>>}
Answer(kind, text) == [kind |-> kind, text |-> text]
ClientAnswers ==
    {Answer("throws", <<>>), Answer("nomatch", <<>>)}
    \cup {Answer("version", v) : v \in CapturedVersions}
ReleaseAnswers ==
    {Answer("throws", <<>>)} \cup {Answer("version", v.text) : v \in VersionStrings}

BlockSyncProbes(n) ==
    {handleNewBlock_sync(n, refs) : refs \in ReferenceTuples(PushReferenceAnswers)}
VersionProbes(key) ==
    {checkVersions_client(key, client, release) :
        client \in ClientAnswers, release \in ReleaseAnswers}
RethProbes == VersionProbes("reth_outdated")
LighthouseProbes == VersionProbes("lighthouse_outdated")

\* What they answer for a steady node
SteadyGetBlockAnswers == {"block"}
SteadyReferenceAnswers == {Fulfilled(BaseHeight)}
SteadyPeerCounts == {MAX_PEER_COUNT_LOW}
SteadyMemoryMBs == {MAX_MEMORY_MB}
SteadyBlockSyncProbes(n) ==
    {handleNewBlock_sync(n, refs) : refs \in ReferenceTuples(SteadyReferenceAnswers)}
SteadyRethProbes == {probe \in RethProbes : probe.status \in {"CAUGHT", "CURRENT"}}

AnswersOf(p, all, steady) == IF p.steady THEN steady ELSE all

Later(a, b) == IF a > b THEN a ELSE b

PushRunning == ws.phase = "running"

PushQuiet == UNCHANGED <<now, telegramEnabled, pollVars, fnVars>>

\* a step of a handler or timer callback: the probe, and whether the process
\* survives what the probe caught
PushProbe(probe) ==
    /\ ProbeStep(probe)
    /\ ws' = IF probe.status \in {"CAUGHT", "UNREACHABLE"} THEN Caught(ws) ELSE ws
    /\ PushQuiet

\* startMonitoring (lines 473-499) up to the await of line 408, the provider
\* constructed
Push_startMonitoring ==
    /\ ws.phase = "init"
    /\ ws' = setupWebSocketConnection([ws EXCEPT !.phase = "running"], TRUE, "never")
    /\ NoGateStep
    /\ PushQuiet
    /\ UNCHANGED push

\* the socket opens, getBlockNumber resolves, setupWebSocketConnection returns
\* and startMonitoring creates its two interval timers (lines 408-409, 501-519)
Push_connected ==
    /\ PushRunning
    /\ ws.wsProvider = "connecting"
    /\ ~push.started
    /\ ws' = [ws EXCEPT !.wsProvider = "open", !.awaitingBlockNumber = FALSE,
                        !.failedInARow = 0]
    /\ push' = [push EXCEPT !.started = TRUE,
                            !.heartbeatDue = now + HEARTBEAT_INTERVAL_MS,
                            !.consensusDue = now + CONSENSUS_INTERVAL_MS]
    /\ NoGateStep
    /\ PushQuiet

\* where a handler goes after handleNewBlock or checkMetrics returned at time t:
\* into checkVersions, or to its end
IntoVersions(p, h, t) ==
    LET v == checkVersions_start(p, t) IN
    [v.push EXCEPT !.handlers =
        (p.handlers \ {h}) \cup (IF v.run THEN {[h EXCEPT !.pc = "reth"]} ELSE {})]

\* where a handler goes after handleNewBlock returned at time t: into
\* checkMetrics and, when that returns at once, into checkVersions
IntoMetrics(p, h, t) ==
    LET m == checkMetrics_start(p, t) IN
    IF m.fetch
    THEN [m.push EXCEPT !.handlers = (p.handlers \ {h}) \cup {[h EXCEPT !.pc = "metrics"]}]
    ELSE IntoVersions(m.push, h, t)

\* a 'block' event is delivered (lines 376-379) and getBlock settles; when it
\* gives a block, handleNewBlock runs up to its await of getCanonicalBlock
\* (lines 202-222)
Push_blockEvent ==
    /\ PushRunning
    /\ ws.wsProvider = "open"
    /\ push.delivered < MaxBlocks
    /\ Cardinality(push.handlers) <
          (IF (push.metricsUrl \/ push.consensusUrl) /\ ~push.steady
           THEN MaxSlowHandlers ELSE MaxHandlers)
    /\ \E answer \in AnswersOf(push, GetBlockAnswers, SteadyGetBlockAnswers) :
          IF answer = "block"
          THEN /\ PushProbe(handleNewBlock_stall(now - push.lastBlockTime))
               /\ push' = [push EXCEPT
                             !.delivered = @ + 1,
                             !.handlers = @ \cup {[n |-> BaseHeight + push.delivered + 1,
                                                   t0 |-> now, pc |-> "canonical"]},
                             !.prevObservedAt = push.observedAt,
                             !.observedAt = now]
          ELSE /\ PushProbe(Probe("CAUGHT", NoKey, 0, {}, {}))
               /\ push' = [push EXCEPT !.delivered = @ + 1]

\* getCanonicalBlock settles: the sync check, the record of the block (lines
\* 222-243), and on into checkMetrics and checkVersions
Push_canonical ==
    /\ PushRunning
    /\ \E h \in {g \in push.handlers : g.pc = "canonical"} :
       \E probe \in AnswersOf(push, BlockSyncProbes(h.n), SteadyBlockSyncProbes(h.n)) :
          /\ PushProbe(probe)
          /\ push' = IntoMetrics([push EXCEPT !.lastBlockTime = h.t0,
                                              !.lastBlockNumber = h.n,
                                              !.handledAt = Later(@, h.t0)],
                                 h, now)

\* fetchMetrics settles (lines 255-264)
Push_metrics ==
    /\ PushRunning
    /\ \E h \in {g \in push.handlers : g.pc = "metrics"} :
       \E metrics \in FetchMetricsAnswers :
          /\ PushProbe(checkMetrics_fetched(metrics))
          /\ push' = IF metrics = "null"
                     THEN IntoVersions(push, h, now)
                     ELSE [push EXCEPT !.handlers =
                              (@ \ {h}) \cup {[h EXCEPT !.pc = "peers"]}]

\* the peer count (lines 266-276)
Push_peers ==
    /\ PushRunning
    /\ \E h \in {g \in push.handlers : g.pc = "peers"} :
       \E peers \in AnswersOf(push, PeerCounts, SteadyPeerCounts) :
          /\ PushProbe(checkMetrics_peers(peers))
          /\ push' = [push EXCEPT !.handlers =
                         (@ \ {h}) \cup {[h EXCEPT !.pc = "memory"]}]

\* the memory usage (lines 278-292), and on into checkVersions
Push_memory ==
    /\ PushRunning
    /\ \E h \in {g \in push.handlers : g.pc = "memory"} :
       \E memoryMB \in AnswersOf(push, MemoryMBs, SteadyMemoryMBs) :
          /\ PushProbe(checkMetrics_memory(memoryMB))
          /\ push' = IntoVersions(push, h, now)

\* the Reth version check settles (lines 306-332)
Push_reth ==
    /\ PushRunning
    /\ \E h \in {g \in push.handlers : g.pc = "reth"} :
       \E probe \in AnswersOf(push, RethProbes, SteadyRethProbes) :
          /\ PushProbe(probe)
          /\ push' = [push EXCEPT !.handlers =
                         (@ \ {h}) \cup (IF push.consensusUrl
                                         THEN {[h EXCEPT !.pc = "lighthouse"]}
                                         ELSE {})]

\* the Lighthouse version check settles (lines 335-366)
Push_lighthouse ==
    /\ PushRunning
    /\ \E h \in {g \in push.handlers : g.pc = "lighthouse"} :
       \E probe \in LighthouseProbes :
          /\ PushProbe(probe)
          /\ push' = [push EXCEPT !.handlers = @ \ {h}]

\* the heartbeat timer fires (lines 507-519)
Push_heartbeat ==
    /\ PushRunning
    /\ push.started
    /\ now >= push.heartbeatDue
    /\ PushProbe(heartbeat(now - push.lastBlockTime))
    /\ push' = [push EXCEPT !.heartbeatDue = now + HEARTBEAT_INTERVAL_MS]

\* the consensus timer fires (lines 502-504)
Push_consensus ==
    /\ PushRunning
    /\ push.started
    /\ now >= push.consensusDue
    /\ \E health \in (IF push.consensusUrl THEN HealthAnswers ELSE {200}) :
          PushProbe(checkConsensusHealth(push.consensusUrl, health))
    /\ push' = [push EXCEPT !.consensusDue = now + CONSENSUS_INTERVAL_MS]

\* Time passes, by the period of the heartbeat, once the timers that are due
\* have fired
PushTick ==
    /\ ws.phase # "exited"
    /\ push.started => now < push.heartbeatDue /\ now < push.consensusDue
    /\ push.ticks < MaxPushTicks
    /\ now' = now + HEARTBEAT_INTERVAL_MS
    /\ push' = [push EXCEPT !.ticks = @ + 1]
    /\ NoGateStep
    /\ UNCHANGED <<pollVars, fnVars, ws>>

\* Time passes, by the period of the version check
PushJump ==
    /\ ws.phase # "exited"
    /\ push.started => now < push.heartbeatDue /\ now < push.consensusDue
    /\ push.jumps < MaxPushJumps
    /\ now' = now + VERSION_CHECK_INTERVAL_MS
    /\ push' = [push EXCEPT !.jumps = @ + 1]
    /\ NoGateStep
    /\ UNCHANGED <<pollVars, fnVars, ws>>

\* Past the horizon of the model the clock value stays: no more time is
\* measured, and the timers keep coming due
PushLate ==
    /\ PushRunning
    /\ push.started
    /\ now < push.heartbeatDue /\ now < push.consensusDue
    /\ push' = [push EXCEPT !.heartbeatDue = now, !.consensusDue = now]
    /\ NoGateStep
    /\ UNCHANGED <<now, pollVars, fnVars, ws>>

PushTickLate ==
    /\ push.ticks = MaxPushTicks
    /\ PushLate

PushJumpLate ==
    /\ push.jumps = MaxPushJumps
    /\ PushLate

\* The monitor with neither ETH_EXECUTION_METRICS nor ETH_CONSENSUS_RPC set (they
\* have no default, lines 10-11) and Telegram configured
InitPush ==
    /\ GateInitAt(PushStartTime)
    /\ telegramEnabled
    /\ mode = "continuous"
    /\ PollIdle
    /\ FnIdle
    /\ ws = WsObject
    /\ push = PushObject(PushStartTime, FALSE, FALSE)

\* Push_metrics, Push_peers, Push_memory and Push_lighthouse are never enabled
\* in this configuration
NextPush ==
    \/ Push_startMonitoring
    \/ Push_connected
    \/ Push_blockEvent
    \/ Push_canonical
    \/ Push_reth
    \/ Push_heartbeat
    \/ Push_consensus
    \/ PushTick
    \/ PushTickLate

SpecPush == InitPush /\ [][NextPush]_vars

\* The monitor with ETH_EXECUTION_METRICS set, where checkMetrics fetches, and
\* hours of running, which the second version check takes
InitSlow ==
    /\ GateInitAt(PushStartTime)
    /\ telegramEnabled
    /\ mode = "continuous"
    /\ PollIdle
    /\ FnIdle
    /\ ws = WsObject
    /\ push = PushObject(PushStartTime, TRUE, FALSE)

NextSlow ==
    \/ Push_startMonitoring
    \/ Push_connected
    \/ Push_blockEvent
    \/ Push_canonical
    \/ Push_metrics
    \/ Push_peers
    \/ Push_memory
    \/ Push_reth
    \/ Push_heartbeat
    \/ Push_consensus
    \/ PushJump
    \/ PushJumpLate

SpecSlow == InitSlow /\ [][NextSlow]_vars


\* C20 (as claimed): block_stall is raised only when more than 30 s lie between
\* two consecutive observed blocks, and never for the first block observed
\* after startup, which has no block before it.
C20_StallBetweenBlocks ==
    (ev.gated = "block_stall" /\ ev.ret) =>
        /\ push.prevObservedAt # NoTime
        /\ push.observedAt - push.prevObservedAt > BLOCK_TIME_THRESHOLD_MS


\* the time since the last handled block, counted from the arrival of the
\* latest block whose handling has completed, and from construction while none
\* has
TimeSinceHandled ==
    now - (IF push.handledAt = NoTime THEN PushStartTime ELSE push.handledAt)

\* C19 (as claimed): at a heartbeat tick, when more than 60 s have passed
\* without a block being handled the no_blocks notification goes to the gate
\* and is sent unless the gate suppresses it, and when at most 60 s have passed
\* no no_blocks notification is sent.
C19_Heartbeat ==
    ev.status \in {"NO_BLOCKS", "BLOCKS"} =>
        /\ TimeSinceHandled > NO_BLOCKS_THRESHOLD_MS =>
              /\ ev.gated = "no_blocks"
              /\ ev.prevFire = NoTime => ev.ret /\ ev.send.calls = 1
        /\ TimeSinceHandled <= NO_BLOCKS_THRESHOLD_MS =>
              ev.gated = NoKey /\ ev.send.calls = 0


C13_UnparsableLeavesEntry ==
    ev.status = "UNPARSABLE" =>
        /\ ev.gated = NoKey
        /\ ev.send.calls = 0
        /\ ev.dropped = {}


\* The timers of Node fire, time passes, and a request that is pending settles;
\* whether the node ever delivers a block is left open
SpecSlowFair ==
    /\ SpecSlow
    /\ WF_vars(Push_startMonitoring)
    /\ WF_vars(Push_connected)
    /\ WF_vars(Push_heartbeat)
    /\ WF_vars(Push_consensus)
    /\ WF_vars(PushJump)
    /\ WF_vars(PushJumpLate)
    /\ WF_vars(Push_canonical)
    /\ WF_vars(Push_metrics)
    /\ WF_vars(Push_peers)
    /\ WF_vars(Push_memory)
    /\ WF_vars(Push_reth)

\* C18 (as claimed): the slow probes run on their own timers: when no block is
\* ever delivered, a metrics check and a version check are still eventually
\* performed.
C18_SlowProbesOnTimers ==
    <>(push.delivered > 0 \/ (push.metricsChecks /\ push.versionChecks))


----------------------------------------------------------------------------
\* The cooldowns of the severity table (src/unnamed/part_000), in minutes
CRITICAL_COOLDOWN_MIN == 10
HIGH_COOLDOWN_MIN == 30
LOW_COOLDOWN_MIN == 360
CRITICAL_URGENT_COOLDOWN_MIN == 30

\* the conditions of the WebSocket monitor the table lists as CRITICAL and as
\* HIGH
CriticalKeys ==
    {"no_blocks", "block_stall", "out_of_sync", "consensus_not_synced",
     "consensus_down"}
HighKeys == {"low_peers", "high_memory", "reth_metrics_unavailable"}

\* C21 (as claimed): the WebSocket monitor passes to the gate the cooldown of
\* the condition's tier: 10 minutes for the CRITICAL conditions and 30 minutes
\* for the HIGH ones.
C21_TierCooldowns ==
    /\ ev.gated \in CriticalKeys => ev.cooldown = CRITICAL_COOLDOWN_MIN
    /\ ev.gated \in HighKeys => ev.cooldown = HIGH_COOLDOWN_MIN


\* C22 (as claimed): a version-behind alert is gated with the cooldown of the
\* tier of the gap: 30 minutes for a major version behind (CRITICAL_URGENT),
\* 30 minutes for a minor one (HIGH), 6 hours for a patch one (LOW).
C22_VersionTierCooldowns ==
    /\ ev.status = "Major version behind" =>
          ev.cooldown = CRITICAL_URGENT_COOLDOWN_MIN
    /\ ev.status = "Minor version behind" => ev.cooldown = HIGH_COOLDOWN_MIN
    /\ ev.status = "Patch version behind" => ev.cooldown = LOW_COOLDOWN_MIN


\* The cooldowns the README gives for the polling monitor (Alert Cooldown), in
\* minutes
README_COOLDOWN_MIN == 60
README_HASH_MISMATCH_COOLDOWN_MIN == 30

C24_OneHandlerAtATime == Cardinality(push.handlers) <= 1


----------------------------------------------------------------------------
\* The consensus timer on its own: the monitor with or without
\* ETH_CONSENSUS_RPC, connected to a node that delivers no block
InitConsensus ==
    /\ GateInitAt(PushStartTime)
    /\ telegramEnabled
    /\ mode = "continuous"
    /\ PollIdle
    /\ FnIdle
    /\ ws = WsObject
    /\ \E consensusUrl \in BOOLEAN :
          push = PushObject(PushStartTime, FALSE, consensusUrl)

NextConsensus ==
    \/ Push_startMonitoring
    \/ Push_connected
    \/ Push_heartbeat
    \/ Push_consensus
    \/ PushTick
    \/ PushTickLate

SpecConsensus == InitConsensus /\ [][NextConsensus]_vars

\* C25: checkConsensusHealth takes the HTTP statuses 200 and 206 as healthy (it
\* gates nothing and clears consensus_not_synced), any other status as not
\* synced (key consensus_not_synced), an endpoint that cannot be reached as
\* down (key consensus_down), and does nothing when no endpoint is configured.
C25_ConsensusDecision ==
    /\ ev.status \in {"HTTP 200", "HTTP 206"} =>
          /\ ev.gated = NoKey
          /\ ev.send.calls = 0
          /\ "consensus_not_synced" \notin DOMAIN lastAlerts
    /\ ev.status = "HTTP other" => ev.gated = "consensus_not_synced"
    /\ ev.status = "UNREACHABLE" => ev.gated = "consensus_down"
    /\ ev.status \in {"HTTP other", "UNREACHABLE"} =>
          (ev.ret => ev.send.calls = 1) /\ ev.deleted = {}
    /\ ev.status = "UNCONFIGURED" =>
          /\ ev.gated = NoKey
          /\ ev.send.calls = 0
          /\ ev.deleted = {}
          /\ DOMAIN lastAlerts \cap {"consensus_not_synced", "consensus_down"} = {}

\* the endpoint answers 206 after a not-synced alert: the entry is cleared
C25_Witness ==
    /\ ev.status = "HTTP 206"
    /\ ev.dropped = {"consensus_not_synced"}
    /\ "consensus_down" \in DOMAIN lastAlerts


\* C26: the check and the stamp of the gate are one step among overlapping
\* handlers and timer callbacks: of two shouldSendAlert calls for the same key
\* with no clear between them and less than the cooldown apart, the second does
\* not return true.
C26_GateAtomic ==
    (ev.gated # NoKey /\ ev.prevFire # NoTime /\ ~ev.afterClear
        /\ now - ev.prevFire < ev.cooldown * MsPerMinute)
      => ~ev.ret /\ ev.send.calls = 0

\* the handler of block 101 completes its sync check after the handler of
\* block 102 has: its out_of_sync call finds the stamp of the other handler
C26_Witness ==
    /\ ev.gated = "out_of_sync"
    /\ ~ev.ret
    /\ ev.prevFire # NoTime
    /\ push.delivered = 2
    /\ push.lastBlockNumber = BaseHeight + 1


\* C27 (as claimed): with block events delivered in increasing number, the
\* record of the last observed block never goes backwards: no step lowers
\* lastBlockNumber or lastBlockTime.
C27_LastBlockMonotone ==
    [][/\ push'.lastBlockNumber >= push.lastBlockNumber
       /\ push'.lastBlockTime >= push.lastBlockTime]_vars


\* C28 (as claimed): at most one reconnection is in flight: never more than
\* one pending reconnect timer, and never a provider besides this.wsProvider
\* whose socket is still to close.
C28_OneReconnectInFlight ==
    ws.phase = "running" =>
        /\ ws.reconnectTimers <= 1
        /\ ws.orphans = 0


\* C29 (as claimed): reconnectAttempts stays within 0..maxReconnectAttempts,
\* and goes back to 0 only once a connection has been established: a step that
\* resets it leaves the socket of this.wsProvider open.
C29_CounterResetOnConnect ==
    [][/\ ws'.reconnectAttempts \in 0..maxReconnectAttempts
       /\ (ws.reconnectAttempts > 0 /\ ws'.reconnectAttempts = 0)
             => ws'.wsProvider = "open"]_vars


\* C30: the stamp of the gate outlasts a failed delivery: a step whose
\* delivery fails leaves the key stamped with the time of the call; no step
\* moves an entry back, an entry goes only by a clear; and no delivery is
\* attempted for a key that has an entry before the cooldown has passed since
\* that entry.
C30_StampOutlastsFailure ==
    [][/\ (ev'.gated # NoKey /\ ev'.ret /\ ev'.outcome = "rejects") =>
             MapGet(lastAlerts', ev'.gated) = now'
       /\ \A k \in DOMAIN lastAlerts :
             IF k \in DOMAIN lastAlerts'
             THEN lastAlerts'[k] >= lastAlerts[k]
             ELSE k \in ev'.deleted
       /\ (ev'.gated \in DOMAIN lastAlerts /\ ev'.send.calls > 0) =>
             now' - lastAlerts[ev'.gated] >= ev'.cooldown * MsPerMinute]_vars

\* the out_of_sync notification fails again at the attempt made once the
\* cooldown has passed
C30_Witness ==
    /\ ev.gated = "out_of_sync"
    /\ ev.ret
    /\ ev.outcome = "rejects"
    /\ ev.prevNotif # NoTime
    /\ now - ev.prevNotif >= ev.cooldown * MsPerMinute
    /\ MapGet(lastAlerts, "out_of_sync") = now


\* C32 (as claimed): after a run of the polling checkSyncStatus that observed
\* the node not more than 10 blocks behind (in range, or ahead) the
\* out_of_sync entry is absent, and after a run that observed it not more than
\* 5 blocks ahead (in range, or behind) the ahead_of_chain entry is absent.
C32_SyncEntriesCleared ==
    (pc = "blockConsistency" /\ ev.status \in {"OK", "WARNING"}) =>
        /\ ev.gated # "out_of_sync" => "out_of_sync" \notin DOMAIN lastAlerts
        /\ ev.gated # "ahead_of_chain" => "ahead_of_chain" \notin DOMAIN lastAlerts


----------------------------------------------------------------------------
\* The throttles of the slow probes: the monitor with ETH_EXECUTION_METRICS set
\* on a steady node, block handlers overlapping, the clock in steps of 30 s
InitThrottle ==
    /\ GateInitAt(PushStartTime)
    /\ telegramEnabled
    /\ mode = "continuous"
    /\ PollIdle
    /\ FnIdle
    /\ ws = WsObject
    /\ push = [PushObject(PushStartTime, TRUE, FALSE) EXCEPT !.steady = TRUE]

NextThrottle ==
    \/ Push_startMonitoring
    \/ Push_connected
    \/ Push_blockEvent
    \/ Push_canonical
    \/ Push_metrics
    \/ Push_peers
    \/ Push_memory
    \/ Push_reth
    \/ Push_heartbeat
    \/ Push_consensus
    \/ PushTick
    \/ PushTickLate

SpecThrottle == InitThrottle /\ [][NextThrottle]_vars


\* the handlers standing at the await of fetchMetrics (line 255) and inside
\* the first request of checkVersions (line 308)
MetricsFetching(p) == {h \in p.handlers : h.pc = "metrics"}
VersionChecking(p) == {h \in p.handlers : h.pc = "reth"}

\* C31: a step starts at most one metrics fetch, and starts it only when no
\* fetch was started before or the latest one was started at least
\* METRICS_POLL_INTERVAL_SEC earlier, whatever became of that one; a step
\* starts at most one version check, and only when none was started before or
\* the latest one was started at least 6 hours earlier; the step that starts
\* either has already set its throttle timestamp to the present time, and no
\* step moves a throttle timestamp back
C31_SlowProbeThrottle ==
    [][ /\ MetricsFetching(push') \ MetricsFetching(push) # {} =>
              /\ Cardinality(MetricsFetching(push') \ MetricsFetching(push)) = 1
              /\ \/ push.metricsFetchAt = NoTime
                 \/ now' - push.metricsFetchAt >= METRICS_POLL_INTERVAL_MS
              /\ push'.lastMetricsCheck = now'
        /\ VersionChecking(push') \ VersionChecking(push) # {} =>
              /\ Cardinality(VersionChecking(push') \ VersionChecking(push)) = 1
              /\ \/ push.versionCheckAt = NoTime
                 \/ now' - push.versionCheckAt >= VERSION_CHECK_INTERVAL_MS
              /\ push'.lastVersionCheck = now'
        /\ push'.lastMetricsCheck >= push.lastMetricsCheck
        /\ push'.lastVersionCheck >= push.lastVersionCheck
      ]_vars

\* a metrics fetch started when the monitor started has failed, a second block
\* has been handled since, and the next fetch was started one interval later
C31_Witness ==
    /\ "reth_metrics_unavailable" \in DOMAIN lastAlerts
    /\ lastFire["reth_metrics_unavailable"] = PushStartTime
    /\ push.delivered >= 2
    /\ push.metricsFetchAt = PushStartTime + METRICS_POLL_INTERVAL_MS
    /\ push.lastMetricsCheck = push.metricsFetchAt
    /\ push.versionCheckAt = PushStartTime

====
